---- MODULE Spec2Model ----
(***************************************************************************)
(* Model of the real-time collaboration relay:                             *)
(*   backend/services/collaborationService.js  (CollaborationService)      *)
(*   backend/models/Project.js                 (project store methods)     *)
(*   server.js                                 (Socket.IO event wiring)    *)
(* Every await of the handlers is a separate step, so that handlers of     *)
(* different events interleave exactly where the event loop lets them.     *)
(***************************************************************************)
EXTENDS Integers, Sequences, FiniteSets, TLC

\* ------------------------------------------------------------------------
\* Bounds of the model
\* ------------------------------------------------------------------------
\* handler invocations that may be suspended on an await at once
MaxPending == 2
\* code-change events accepted for one file
MaxOps == 2
\* calls of debouncedSave
MaxSaves == 3
\* the last instant of the clock, in seconds
MaxTime == 4
\* file-operation events
MaxFileOps == 2
\* minutes the clock of the inactivity sweep may run
MaxIdle == 6
\* operations queued for one key when queueOperation is called by itself
MaxQueued == 102
\* queued operations and timestamps given to transformOperation
MaxPrior == 2
MaxStamp == 3
\* positions and lengths of the operations given to the transform
MaxPosition == 10
MaxLength == 4

\* ------------------------------------------------------------------------
\* The world outside the relay: sockets, users, projects
\* ------------------------------------------------------------------------
Sockets == {"s1", "s2"}
ProjectIds == {"p1", "p2"}
\* the paths events name; "a.js" is a file of project p1 from the start
FilePaths == {"a.js", "b.js"}
Contents == {"A", "B"}
NoUser == "undefined"
NoRoom == 0
NoSession == [userId |-> NoUser, lastActivity |-> -1, cursor |-> "null"]
NoCursor == "null"
CursorVals == {"f.js@1"}

\* socket.userId, set by the authentication layer (undefined when it is not)
userIdOf(s) == CASE s = "s1" -> "alice" [] s = "s2" -> "bob" [] OTHER -> NoUser

\* the projects of the store: owner and accepted collaborators with a role
owner(p) == "alice"

getCollaboratorRole(p, u) ==
    CASE p = "p1" /\ u = "bob" -> "read"
      [] OTHER -> "null"

permissions(action) ==
    CASE action = "read" -> {"read", "write", "admin"}
      [] action = "write" -> {"write", "admin"}
      [] OTHER -> {"admin"}

\* variant: the role is not compared with the action asked for
canUserAccess_AnyRole(p, u, action) ==
    owner(p) = u \/ getCollaboratorRole(p, u) # "null"

canUserAccess(p, u, action) ==
    IF owner(p) = u THEN TRUE
    ELSE IF getCollaboratorRole(p, u) = "null" THEN FALSE
    ELSE getCollaboratorRole(p, u) \in permissions(action)

\* ------------------------------------------------------------------------
\* State
\* ------------------------------------------------------------------------
VARIABLES
    connected,      \* socket -> the transport connection is open
    ioRooms,        \* Socket.IO adapter: project id -> sockets in the room
    activeUsers,    \* Map projectId -> Map, as the sequence of its entries
                    \* in insertion order; the inner Map is a reference
    heap,           \* the inner Map objects: reference -> (socket -> session)
    cursors,        \* Map socket.id -> cursor
    joins,          \* handleUserJoin invocations suspended on an await
    now,            \* the clock (Date.now())
    out,            \* the events the last step delivered
    last,           \* the handler step that was taken last
    lastOp,         \* history: the last Join/Leave that finished for a socket
    targets,        \* history: the projects a socket ever asked to join
    operationQueue, \* Map key -> array of queued operations
    saveTimeouts,   \* Map key -> timer handle
    timers,         \* the event loop's timers that are set and have not fired
    saves,          \* debouncedSave callbacks suspended on an await
    store,          \* the project store: files and activity of each project
    changes,        \* handleCodeChange invocations suspended on an await
    fileOps,        \* handleFileOperation invocations suspended on an await
    saveLog         \* history of the debouncedSave calls and writes of a key

presence == <<connected, ioRooms, activeUsers, heap, cursors, joins, lastOp,
              targets>>
editing == <<operationQueue, saveTimeouts, timers, saves, changes, saveLog>>
vars == <<connected, ioRooms, activeUsers, heap, cursors, joins, now, out,
          last, lastOp, targets, operationQueue, saveTimeouts, timers, saves,
          store, changes, fileOps, saveLog>>

Refs == 1 .. (Cardinality(ProjectIds) + MaxPending)

\* the handlers of socket events that are suspended on an await
Pending == Cardinality(joins) + Cardinality(changes) + Cardinality(fileOps)
EmptyRoom == [s \in Sockets |-> NoSession]
NoOperation == [type |-> "none", position |-> 0, length |-> 0, text |-> 0]
NoFile == "undefined"
NoTimer == 0

\* the record of a handler step: its kind, the socket and project of the
\* event, and whether the socket had a Session in that project's Room (for
\* a leave: in any Room) when the step began
NoData == [projectId |-> "-"]
StepOf(kind, s, p, member, data) ==
    [kind |-> kind, socket |-> s, pid |-> p, member |-> member, data |-> data]
Step(kind, s, p, member) == StepOf(kind, s, p, member, NoData)

\* an event delivered to socket `to`
EventOf(to, ev, from, pid, users, operation, content, position) ==
    [to |-> to, ev |-> ev, from |-> from, pid |-> pid, users |-> users,
     operation |-> operation, content |-> content, position |-> position]
Event(to, ev, from, pid, users) ==
    EventOf(to, ev, from, pid, users, NoOperation, "", 0)

\* the ids events may name: "p9" is the id of no project of the store
AllProjectIds == ProjectIds \cup {"p9"}
\* Project.findById(projectId) returns a document
Exists(p) == p \in ProjectIds

\* `${projectId}:${filePath}`, the key of operationQueue
queueKey(p, f) == p \o ":" \o f
\* `save_${projectId}_${filePath}`, the key of saveTimeouts
saveKey(p, f) == "save_" \o p \o "_" \o f
\* (project id, file path) pairs whose strings hold a separator of the keys
SeparatorPairs ==
    {<<"p", "a_b">>, <<"p_a", "b">>, <<"p", "a:b">>, <<"p:a", "b">>}
QueueKeys == {queueKey(p, f) : p \in AllProjectIds, f \in FilePaths}
                \cup {queueKey(e[1], e[2]) : e \in SeparatorPairs}
SaveKeys == {saveKey(p, f) : p \in AllProjectIds, f \in FilePaths}
                \cup {saveKey(e[1], e[2]) : e \in SeparatorPairs}
TimerIds == 1 .. (MaxSaves + Cardinality(SaveKeys))

\* history of a save key: the number of debouncedSave calls, whether every
\* call came less than SaveDelay after the one before, the time and the
\* content of the last call, and the contents of the store updates issued
NoCalls == [calls |-> 0, close |-> TRUE, lastAt |-> 0, content |-> "",
            issued |-> << >>]

\* ------------------------------------------------------------------------
\* Helpers: Map lookups and Socket.IO emitters
\* ------------------------------------------------------------------------
\* this.activeUsers.has(projectId)
HasRoom(au, p) == \E i \in 1 .. Len(au) : au[i].pid = p

\* this.activeUsers.get(projectId): the reference of the inner Map
RoomOf(au, p) ==
    IF HasRoom(au, p)
    THEN au[CHOOSE i \in 1 .. Len(au) : au[i].pid = p].room
    ELSE NoRoom

\* projectUsers.has(socket.id)
HasSession(h, r, s) == r # NoRoom /\ h[r][s] # NoSession

\* the sockets with a Session in the Room of project p
Members(au, h, p) ==
    IF HasRoom(au, p) THEN {s \in Sockets : h[RoomOf(au, p)][s] # NoSession}
    ELSE {}

\* this.activeUsers.delete(projectId)
DeleteRoom(au, p) == SelectSeq(au, LAMBDA e : e.pid # p)

\* a Map object no variable refers to any more is garbage
Live(au, js) == {au[i].room : i \in 1 .. Len(au)} \cup {j.room : j \in js}
Collect(h, au, js) ==
    [r \in Refs |-> IF r \in Live(au, js) THEN h[r] ELSE EmptyRoom]

\* new Map(): an unused reference
NewRef(au, js) == CHOOSE r \in Refs : r \notin Live(au, js)

\* socket.emit(ev, ...): dropped when the socket has disconnected
SocketEmit(s, ev, pid, users) ==
    IF connected[s] THEN {Event(s, ev, s, pid, users)} ELSE {}

\* variant: the sender is not left out (io.to in place of socket.to)
SocketTo_Everyone(rooms, s, pid) == rooms[pid]

\* socket.to(projectId): every socket of the Socket.IO room except the sender
SocketTo(rooms, s, pid) == rooms[pid] \ {s}

\* socket.to(projectId).emit(ev, ...)
SocketToEmit(rooms, s, ev, pid) ==
    {Event(t, ev, s, pid, {}) : t \in SocketTo(rooms, s, pid)}

\* io.to(projectId): every socket of the Socket.IO room
IoTo(rooms, pid) == rooms[pid]

\* socket.join(projectId): a no-op once the socket has disconnected
SocketJoin(rooms, s, p) ==
    IF connected[s] THEN [rooms EXCEPT ![p] = @ \cup {s}] ELSE rooms

\* ------------------------------------------------------------------------
\* Init
\* ------------------------------------------------------------------------
Init ==
    /\ connected = [s \in Sockets |-> TRUE]
    /\ ioRooms = [p \in ProjectIds |-> {}]
    /\ activeUsers = << >>
    /\ heap = [r \in Refs |-> EmptyRoom]
    /\ cursors = [s \in Sockets |-> NoCursor]
    /\ joins = {}
    /\ now = 0
    /\ out = {}
    /\ last = Step("init", "-", "-", FALSE)
    /\ lastOp = [s \in Sockets |-> "none"]
    /\ targets = [s \in Sockets |-> {}]
    /\ operationQueue = [k \in QueueKeys |-> << >>]
    /\ saveTimeouts = [k \in SaveKeys |-> NoTimer]
    /\ timers = {}
    /\ saves = {}
    /\ store = [p \in ProjectIds |->
                 [files |-> [f \in FilePaths |->
                               IF p = "p1" /\ f = "a.js" THEN "A" ELSE NoFile],
                  activity |-> << >>]]
    /\ changes = {}
    /\ fileOps = {}
    /\ saveLog = [k \in SaveKeys |-> NoCalls]

\* ------------------------------------------------------------------------
\* handleUserJoin
\* ------------------------------------------------------------------------
\* lines 13-22: up to the first await (Project.findById)
UserJoinStart(s, p) ==
    IF userIdOf(s) = NoUser
    THEN /\ out' = SocketEmit(s, "collaboration-error", p, {})
         /\ joins' = joins
    ELSE /\ out' = {}
         /\ joins' = joins \cup {[socket |-> s, pid |-> p,
                                  pc |-> "findProject", room |-> NoRoom]}

\* socket.on('join-project'): socket.join(projectId), then handleUserJoin,
\* which is not awaited
OnJoinProject(s, p) ==
    /\ connected[s]
    /\ Pending < MaxPending
    /\ \A j \in joins : ~(j.socket = s /\ j.pid = p)
    /\ ioRooms' = SocketJoin(ioRooms, s, p)
    /\ UserJoinStart(s, p)
    /\ last' = Step("join-project", s, p, s \in Members(activeUsers, heap, p))
    /\ targets' = [targets EXCEPT ![s] = @ \cup {p}]
    /\ UNCHANGED <<connected, activeUsers, heap, cursors, now, lastOp>>
    /\ UNCHANGED <<editing, store, fileOps>>

\* lines 22-37: Project.findById settles; access check, socket.join, the
\* Room is created when absent, then the await of User.findById
UserJoinProjectFound(j, found) ==
    /\ j \in joins
    /\ j.pc = "findProject"
    /\ last' = Step("join-access", j.socket, j.pid,
                     j.socket \in Members(activeUsers, heap, j.pid))
    /\ IF ~found
       THEN \* findById rejected: the catch block of lines 85-88
            /\ out' = SocketEmit(j.socket, "collaboration-error", j.pid, {})
            /\ joins' = joins \ {j}
            /\ UNCHANGED <<ioRooms, activeUsers, heap>>
       ELSE IF ~canUserAccess(j.pid, userIdOf(j.socket), "read")
       THEN /\ out' = SocketEmit(j.socket, "collaboration-error", j.pid, {})
            /\ joins' = joins \ {j}
            /\ UNCHANGED <<ioRooms, activeUsers, heap>>
       ELSE LET au == IF HasRoom(activeUsers, j.pid) THEN activeUsers
                      ELSE Append(activeUsers,
                               [pid |-> j.pid,
                                room |-> NewRef(activeUsers, joins \ {j})])
                js == (joins \ {j}) \cup
                        {[j EXCEPT !.pc = "findUser",
                                   !.room = RoomOf(au, j.pid)]}
            IN  /\ ioRooms' = SocketJoin(ioRooms, j.socket, j.pid)
                /\ activeUsers' = au
                /\ joins' = js
                /\ heap' = Collect(heap, au, js)
                /\ out' = {}
    /\ UNCHANGED <<connected, cursors, now, lastOp, targets>>
    /\ UNCHANGED <<editing, store, fileOps>>

\* lines 37-83: User.findById settles; the Session is stored in the Map the
\* handler looked up before the await, and the events are emitted
UserJoinUserFound(j, found) ==
    /\ j \in joins
    /\ j.pc = "findUser"
    /\ last' = Step(IF found THEN "join-done" ELSE "join-failed", j.socket,
                     j.pid, j.socket \in Members(activeUsers, heap, j.pid))
    /\ joins' = joins \ {j}
    /\ IF ~found
       THEN \* user is null (or the lookup rejected): lines 85-88
            /\ out' = SocketEmit(j.socket, "collaboration-error", j.pid, {})
            /\ heap' = Collect(heap, activeUsers, joins')
            /\ lastOp' = lastOp
       ELSE LET h == [heap EXCEPT ![j.room][j.socket] =
                        [userId |-> userIdOf(j.socket), lastActivity |-> now,
                         cursor |-> NoCursor]]
                others == {t \in Sockets : h[j.room][t] # NoSession}
                            \ {j.socket}
            IN  /\ heap' = Collect(h, activeUsers, joins')
                /\ out' = SocketToEmit(ioRooms, j.socket, "user-joined", j.pid)
                       \cup SocketEmit(j.socket, "active-users", j.pid, others)
                       \cup SocketEmit(j.socket, "project-joined", j.pid, {})
                /\ lastOp' = [lastOp EXCEPT ![j.socket] = "join"]
    /\ UNCHANGED <<connected, ioRooms, activeUsers, cursors, now, targets>>
    /\ UNCHANGED <<editing, store, fileOps>>

\* ------------------------------------------------------------------------
\* handleUserLeave
\* ------------------------------------------------------------------------
\* variant: the socket is looked up under a key no Room holds
FirstRoomWith_Never(au, h, s) == 0

\* the first project, in the Map's order, whose Room holds the socket
FirstRoomWith(au, h, s) ==
    LET hits == {i \in 1 .. Len(au) : h[au[i].room][s] # NoSession}
    IN  IF hits = {} THEN 0
        ELSE CHOOSE i \in hits : \A k \in hits : i <= k

\* lines 92-121, with `rooms` the Socket.IO rooms at the time of the call
UserLeave(s, rooms) ==
    LET i == FirstRoomWith(activeUsers, heap, s)
    IN  IF i = 0
        THEN /\ out' = {}
             /\ UNCHANGED <<activeUsers, heap, cursors>>
        ELSE LET p == activeUsers[i].pid
                 r == activeUsers[i].room
                 h == [heap EXCEPT ![r][s] = NoSession]
                 au == IF \A t \in Sockets : h[r][t] = NoSession
                       THEN DeleteRoom(activeUsers, p)
                       ELSE activeUsers
             IN  /\ out' = SocketToEmit(rooms, s, "user-left", p)
                 /\ cursors' = [cursors EXCEPT ![s] = NoCursor]
                 /\ activeUsers' = au
                 /\ heap' = Collect(h, au, joins)

\* handleUserLeave(socket) called on the service
HandleUserLeave(s) ==
    /\ UserLeave(s, ioRooms)
    /\ last' = Step("leave", s, "-", FirstRoomWith(activeUsers, heap, s) # 0)
    /\ lastOp' = [lastOp EXCEPT ![s] = "leave"]
    /\ UNCHANGED <<connected, ioRooms, joins, now, targets>>
    /\ UNCHANGED <<editing, store, fileOps>>

\* socket.on('disconnect'): Socket.IO has taken the socket out of all its
\* rooms before the handler runs
OnDisconnect(s) ==
    /\ connected[s]
    /\ connected' = [connected EXCEPT ![s] = FALSE]
    /\ ioRooms' = [p \in ProjectIds |-> ioRooms[p] \ {s}]
    /\ UserLeave(s, ioRooms')
    /\ last' = Step("disconnect", s, "-",
                     FirstRoomWith(activeUsers, heap, s) # 0)
    /\ lastOp' = [lastOp EXCEPT ![s] = "leave"]
    /\ UNCHANGED <<joins, now, targets>>
    /\ UNCHANGED <<editing, store, fileOps>>

\* ------------------------------------------------------------------------
\* handleCursorMove
\* ------------------------------------------------------------------------
\* lines 172-204
OnCursorMove(s, p, c) ==
    /\ connected[s]
    /\ cursors' = [cursors EXCEPT ![s] = c]
    /\ LET r == RoomOf(activeUsers, p)
       IN  heap' = IF HasSession(heap, r, s)
                   THEN [heap EXCEPT ![r][s].lastActivity = now,
                                     ![r][s].cursor = c]
                   ELSE heap
    /\ out' = SocketToEmit(ioRooms, s, "cursor-move", p)
    /\ last' = Step("cursor-move", s, p, s \in Members(activeUsers, heap, p))
    /\ UNCHANGED <<connected, ioRooms, activeUsers, joins, now, lastOp,
                   targets>>
    /\ UNCHANGED <<editing, store, fileOps>>

\* ------------------------------------------------------------------------
\* cleanupInactiveUsers
\* ------------------------------------------------------------------------
\* 5 * 60 * 1000 ms (line 504), in seconds
InactiveThreshold == 300
SecondsPerMinute == 60

\* a minute passes
TickMinute ==
    /\ now + SecondsPerMinute <= MaxIdle * SecondsPerMinute
    /\ now' = now + SecondsPerMinute
    /\ out' = {}
    /\ last' = Step("tick", "-", "-", FALSE)
    /\ UNCHANGED <<presence, editing, store, fileOps>>

\* variant: a Session idle for exactly the threshold is removed as well
Inactive_AtThreshold(h, r, t) ==
    {s \in Sockets : /\ h[r][s] # NoSession
                     /\ t - h[r][s].lastActivity >= InactiveThreshold}

\* line 508: the Sessions of the Map r that are inactive at time t
Inactive(h, r, t) ==
    {s \in Sockets : /\ h[r][s] # NoSession
                     /\ t - h[r][s].lastActivity > InactiveThreshold}

\* lines 502-525, called on the service
CleanupInactiveUsers ==
    LET gone(r) == Inactive(heap, r, now)
        h == [r \in Refs |->
                IF \E i \in 1 .. Len(activeUsers) : activeUsers[i].room = r
                THEN [s \in Sockets |->
                        IF s \in gone(r) THEN NoSession ELSE heap[r][s]]
                ELSE heap[r]]
        au == SelectSeq(activeUsers,
                        LAMBDA e : \E s \in Sockets : h[e.room][s] # NoSession)
        evicted == UNION {gone(activeUsers[i].room) :
                            i \in 1 .. Len(activeUsers)}
    IN  /\ activeUsers' = au
        /\ heap' = Collect(h, au, joins)
        /\ cursors' = [s \in Sockets |->
                        IF s \in evicted THEN NoCursor ELSE cursors[s]]
        /\ out' = UNION {{Event(t, "user-inactive", s, activeUsers[i].pid, {}) :
                            s \in gone(activeUsers[i].room),
                            t \in IoTo(ioRooms, activeUsers[i].pid)} :
                         i \in 1 .. Len(activeUsers)}
        /\ last' = Step("cleanup", "-", "-", FALSE)
        /\ UNCHANGED <<connected, ioRooms, joins, now, lastOp, targets>>
        /\ UNCHANGED <<editing, store, fileOps>>

\* a minute passes in a server that runs without end: the clock counts up
\* to MaxIdle minutes and stays there, so that idle times are understated
\* from then on
ClockMinute ==
    /\ now' = IF now + SecondsPerMinute <= MaxIdle * SecondsPerMinute
              THEN now + SecondsPerMinute ELSE now
    /\ out' = {}
    /\ last' = Step("tick", "-", "-", FALSE)
    /\ UNCHANGED <<presence, editing, store, fileOps>>

\* lines 543-547: the callback of the one-minute interval timer; its body
\* holds only comments, the service's sweep is not called
CleanupInterval ==
    /\ out' = {}
    /\ last' = Step("interval", "-", "-", FALSE)
    /\ UNCHANGED <<presence, now, editing, store, fileOps>>

\* ------------------------------------------------------------------------
\* transformOperation, queueOperation
\* ------------------------------------------------------------------------
\* op2.length || op2.text?.length || 0
\* variant: the text of an insertion that names no length is not measured
InsertedLength_NoText(op2) == op2.length

InsertedLength(op2) == IF op2.length # 0 THEN op2.length ELSE op2.text

\* op2.length || 1
DeletedLength(op2) == IF op2.length # 0 THEN op2.length ELSE 1

\* lines 284-303
transformAgainstOperation(op1, op2) ==
    IF op1.type = "insert" /\ op2.type = "insert"
    THEN IF op1.position >= op2.position
         THEN [op1 EXCEPT !.position = @ + InsertedLength(op2)]
         ELSE op1
    ELSE IF op1.type = "delete" /\ op2.type = "insert"
    THEN IF op1.position > op2.position
         THEN [op1 EXCEPT !.position = @ + InsertedLength(op2)]
         ELSE op1
    ELSE IF op1.type = "insert" /\ op2.type = "delete"
    THEN IF op1.position > op2.position
         THEN [op1 EXCEPT !.position = @ - DeletedLength(op2)]
         ELSE op1
    ELSE op1

\* the loop of lines 274-278 from entry i of pendingOps on
RECURSIVE TransformFrom(_, _, _, _)
TransformFrom(pendingOps, i, transformedOp, timestamp) ==
    IF i > Len(pendingOps) THEN transformedOp
    ELSE TransformFrom(pendingOps, i + 1,
            IF pendingOps[i].timestamp < timestamp
            THEN transformAgainstOperation(transformedOp,
                                           pendingOps[i].operation)
            ELSE transformedOp,
            timestamp)

\* variant: every pending operation counts, whatever its timestamp
transformOperation_AllPending(queue, projectId, operation, data) ==
    TransformFrom(queue[queueKey(projectId, data.filePath)], 1, operation,
                  MaxStamp + 1)

\* lines 265-281
transformOperation(queue, projectId, operation, data) ==
    TransformFrom(queue[queueKey(projectId, data.filePath)], 1, operation,
                  data.timestamp)

\* the operations clients send: an insertion names its length, carries its
\* text (held as the text's length), or both; a deletion names its length
Payloads ==
    {<<l, 0>> : l \in 0 .. MaxLength} \cup {<<0, l>> : l \in 1 .. MaxLength}
        \cup {<<l, l>> : l \in 1 .. MaxLength}
ClientOperations ==
    {[type |-> "insert", position |-> n, length |-> pl[1], text |-> pl[2]] :
        n \in 0 .. MaxPosition, pl \in Payloads}
    \cup {[type |-> "delete", position |-> n, length |-> l, text |-> 0] :
        n \in 0 .. MaxPosition, l \in 0 .. MaxLength}

\* transformAgainstOperation about to be called with an incoming and a
\* prior operation
InitTransform ==
    /\ Init!1 /\ Init!2 /\ Init!3 /\ Init!4 /\ Init!5 /\ Init!6 /\ Init!7
    /\ Init!8
    /\ \E op1 \in ClientOperations, op2 \in ClientOperations :
            last = StepOf("transform-call", "-", "-", FALSE,
                          [incoming |-> op1, prior |-> op2])
    /\ Init!10 /\ Init!11 /\ Init!12 /\ Init!13 /\ Init!14 /\ Init!15
    /\ Init!16 /\ Init!17 /\ Init!18 /\ Init!19

\* the call of transformAgainstOperation(op1, op2) (lines 284-303)
TransformAgainstOperation ==
    /\ last.kind = "transform-call"
    /\ last' = StepOf("transformed", "-", "-", FALSE,
                      [incoming |-> last.data.incoming,
                       prior |-> last.data.prior,
                       result |-> transformAgainstOperation(
                                    last.data.incoming, last.data.prior)])
    /\ out' = {}
    /\ UNCHANGED <<presence, now, editing, store, fileOps>>

\* queues the relay can hold when a change for p1, a.js comes in: up to
\* MaxPrior entries under its key, in any order of their timestamps, and
\* an entry under the key of another file and of another project
PriorOperations ==
    {[type |-> "insert", position |-> 1, length |-> 1, text |-> 0],
     [type |-> "insert", position |-> 3, length |-> 2, text |-> 0],
     [type |-> "delete", position |-> 2, length |-> 1, text |-> 0],
     [type |-> "delete", position |-> 0, length |-> 4, text |-> 0]}
QueueEntry(op, ts) ==
    [operation |-> op, content |-> "A", userId |-> "alice", timestamp |-> ts]
QueueEntries ==
    {QueueEntry(op, ts) : op \in PriorOperations, ts \in 1 .. MaxStamp}
Queues ==
    UNION {[1 .. n -> QueueEntries] : n \in 0 .. MaxPrior}
OtherQueues ==
    {<< >>,
     <<QueueEntry([type |-> "insert", position |-> 0, length |-> 4,
                   text |-> 0], 1)>>}
IncomingOperations ==
    {[type |-> "insert", position |-> 2, length |-> 1, text |-> 0],
     [type |-> "delete", position |-> 3, length |-> 1, text |-> 0]}

\* transformOperation about to be called for a change of p1, a.js
InitAdjust ==
    /\ Init!1 /\ Init!2 /\ Init!3 /\ Init!4 /\ Init!5 /\ Init!6 /\ Init!7
    /\ Init!8
    /\ \E op \in IncomingOperations, ts \in 1 .. MaxStamp :
            last = StepOf("adjust-call", "-", "p1", FALSE,
                          [projectId |-> "p1", filePath |-> "a.js",
                           operation |-> op, timestamp |-> ts])
    /\ Init!10 /\ Init!11
    /\ \E q \in Queues, qf \in OtherQueues, qp \in OtherQueues :
            operationQueue =
                [k \in QueueKeys |->
                    IF k = queueKey("p1", "a.js") THEN q
                    ELSE IF k = queueKey("p1", "b.js") THEN qf
                    ELSE IF k = queueKey("p2", "a.js") THEN qp
                    ELSE << >>]
    /\ Init!13 /\ Init!14 /\ Init!15 /\ Init!16 /\ Init!17 /\ Init!18
    /\ Init!19

\* variant: transformedOp names the object the client supplied
Spread_SameObject(object) == object

\* line 272, `{ ...operation }`: a new object with the fields of the old one
Spread(object) == "transformedOp"

\* the object the caller supplied, after the call: the assignments of lines
\* 289, 293 and 297 change the object transformedOp names, never op2
SuppliedOperation(queue, projectId, operation, data) ==
    IF Spread("operation") = "operation"
    THEN transformOperation(queue, projectId, operation, data)
    ELSE operation

\* the call of transformOperation(projectId, operation, data), lines 265-281
TransformOperation ==
    /\ last.kind = "adjust-call"
    /\ last' = StepOf("adjusted", "-", "p1", FALSE,
                      [projectId |-> last.data.projectId,
                       filePath |-> last.data.filePath,
                       operation |-> last.data.operation,
                       timestamp |-> last.data.timestamp,
                       supplied |-> SuppliedOperation(operationQueue,
                                    last.data.projectId, last.data.operation,
                                    last.data),
                       result |-> transformOperation(operationQueue,
                                    last.data.projectId, last.data.operation,
                                    last.data)])
    /\ out' = {}
    /\ UNCHANGED <<presence, now, editing, store, fileOps>>

\* lines 306-319
QueueLimit == 100
\* variant: a full queue keeps its oldest entries and drops the new one
queueOperation_KeepOldest(queue, projectId, filePath, entry) ==
    LET key == queueKey(projectId, filePath)
        q == Append(queue[key], entry)
    IN  [queue EXCEPT ![key] =
            IF Len(q) > QueueLimit THEN SubSeq(q, 1, QueueLimit) ELSE q]

queueOperation(queue, projectId, filePath, entry) ==
    LET key == queueKey(projectId, filePath)
        q == Append(queue[key], entry)
    IN  [queue EXCEPT ![key] =
            IF Len(q) > QueueLimit
            THEN SubSeq(q, Len(q) - QueueLimit + 1, Len(q))
            ELSE q]

\* queueOperation(projectId, filePath, operation) called on the service,
\* with an entry as handleCodeChange builds it (lines 155-160); the
\* timestamp numbers the entries of the key
QueueOperation(projectId, filePath) ==
    LET q == operationQueue[queueKey(projectId, filePath)]
        n == IF q = << >> THEN 1 ELSE q[Len(q)].timestamp + 1
        entry == [operation |-> NoOperation, content |-> "A",
                  userId |-> "alice", timestamp |-> n]
    IN  /\ n <= MaxQueued
        /\ operationQueue' =
                queueOperation(operationQueue, projectId, filePath, entry)
        /\ out' = {}
        /\ last' = StepOf("queued", "-", projectId, FALSE,
                          [projectId |-> projectId, filePath |-> filePath,
                           entry |-> entry])
        /\ UNCHANGED <<presence, now, saveTimeouts, timers, saves, changes,
                       saveLog, store, fileOps>>

\* ------------------------------------------------------------------------
\* debouncedSave
\* ------------------------------------------------------------------------
SaveDelay == 2

InUse == {t.id : t \in timers} \cup {sv.id : sv \in saves}
            \cup {saveTimeouts[k] : k \in SaveKeys}
NewTimer == CHOOSE id \in TimerIds :
                id \notin InUse /\ \A other \in TimerIds \ InUse : id <= other

\* variant: the timer of the earlier call is left running
ClearTimeout_Ignored(ts, handle) == ts

\* clearTimeout(handle): a timer that has fired is not affected
ClearTimeout(ts, handle) == {t \in ts : t.id # handle}

\* lines 322-335 and 346: the timer of the key is cleared and a new one set
DebouncedSave(projectId, filePath, content) ==
    LET key == saveKey(projectId, filePath)
        cleared == ClearTimeout(timers, saveTimeouts[key])
        log == saveLog[key]
    IN  /\ timers' = cleared \cup
                {[id |-> NewTimer, projectId |-> projectId,
                  filePath |-> filePath, content |-> content,
                  due |-> now + SaveDelay]}
        /\ saveTimeouts' = [saveTimeouts EXCEPT ![key] = NewTimer]
        /\ saveLog' = [saveLog EXCEPT ![key] =
                [calls |-> log.calls + 1,
                 close |-> log.close /\
                             (log.calls = 0 \/ now - log.lastAt < SaveDelay),
                 lastAt |-> now,
                 content |-> content,
                 issued |-> log.issued]]

\* the number of debouncedSave calls made so far, over the keys ks
RECURSIVE TotalCalls(_)
TotalCalls(ks) ==
    IF ks = {} THEN 0
    ELSE LET k == CHOOSE x \in ks : TRUE
         IN  saveLog[k].calls + TotalCalls(ks \ {k})

\* debouncedSave(projectId, filePath, content) called on the service
CallDebouncedSave(projectId, filePath, content) ==
    /\ TotalCalls(SaveKeys) < MaxSaves
    /\ DebouncedSave(projectId, filePath, content)
    /\ out' = {}
    /\ last' = Step("debounced-save", "-", projectId, FALSE)
    /\ UNCHANGED <<presence, now, operationQueue, saves, store, changes,
                   fileOps>>

\* time passes
Tick ==
    /\ now < MaxTime
    /\ now' = now + 1
    /\ out' = {}
    /\ last' = Step("tick", "-", "-", FALSE)
    /\ UNCHANGED <<presence, editing, store, fileOps>>

\* lines 335-337: the timer fires, not before its delay has passed, and the
\* callback runs up to its await of Project.findById
TimerFires(t) ==
    /\ t \in timers
    /\ now >= t.due
    /\ timers' = timers \ {t}
    /\ saves' = saves \cup
            {[id |-> t.id, projectId |-> t.projectId, filePath |-> t.filePath,
              content |-> t.content, pc |-> "findProject"]}
    /\ saveLog' = [saveLog EXCEPT
            ![saveKey(t.projectId, t.filePath)].issued = Append(@, t.content)]
    /\ out' = {}
    /\ last' = Step("timer", "-", t.projectId, FALSE)
    /\ UNCHANGED <<presence, now, operationQueue, saveTimeouts, store,
                   changes, fileOps>>

\* this.saveTimeouts.delete(key)
DeleteTimeout(key) == [saveTimeouts EXCEPT ![key] = NoTimer]

\* lines 337-340: Project.findById settles; updateFile (which throws when
\* the project has no such file) and the await of project.save()
SaveProjectFound(sv, found) ==
    /\ sv \in saves
    /\ sv.pc = "findProject"
    /\ out' = {}
    /\ last' = Step("save-lookup", "-", sv.projectId, FALSE)
    /\ IF ~found \/ (Exists(sv.projectId) /\
                      store[sv.projectId].files[sv.filePath] = NoFile)
       THEN \* the catch block of lines 343-345: the Map entry stays
            /\ saves' = saves \ {sv}
            /\ UNCHANGED saveTimeouts
       ELSE IF ~Exists(sv.projectId)
       THEN \* line 342 alone
            /\ saves' = saves \ {sv}
            /\ saveTimeouts' =
                    DeleteTimeout(saveKey(sv.projectId, sv.filePath))
       ELSE /\ saves' = (saves \ {sv}) \cup {[sv EXCEPT !.pc = "save"]}
            /\ UNCHANGED saveTimeouts
    /\ UNCHANGED <<presence, now, operationQueue, timers, store, changes,
                   fileOps, saveLog>>

\* variant: a save that failed is scheduled again
SaveDone_Retry(sv, ok) ==
    /\ sv \in saves
    /\ sv.pc = "save"
    /\ saves' = saves \ {sv}
    /\ out' = {}
    /\ last' = Step("save-done", "-", sv.projectId, FALSE)
    /\ IF ok
       THEN /\ store' = [store EXCEPT
                    ![sv.projectId].files[sv.filePath] =
                        IF @ = NoFile THEN @ ELSE sv.content]
            /\ saveTimeouts' =
                    DeleteTimeout(saveKey(sv.projectId, sv.filePath))
            /\ UNCHANGED timers
       ELSE /\ timers' = timers \cup
                    {[id |-> sv.id, projectId |-> sv.projectId,
                      filePath |-> sv.filePath, content |-> sv.content,
                      due |-> now + SaveDelay]}
            /\ UNCHANGED <<store, saveTimeouts>>
    /\ UNCHANGED <<presence, now, operationQueue, changes, fileOps, saveLog>>

\* lines 340-342: project.save() settles
SaveDone(sv, ok) ==
    /\ sv \in saves
    /\ sv.pc = "save"
    /\ saves' = saves \ {sv}
    /\ out' = {}
    /\ last' = Step("save-done", "-", sv.projectId, FALSE)
    /\ IF ok
       THEN /\ store' = [store EXCEPT
                    ![sv.projectId].files[sv.filePath] =
                        IF @ = NoFile THEN @ ELSE sv.content]
            /\ saveTimeouts' =
                    DeleteTimeout(saveKey(sv.projectId, sv.filePath))
       ELSE UNCHANGED <<store, saveTimeouts>>
    /\ UNCHANGED <<presence, now, operationQueue, timers, changes, fileOps,
                   saveLog>>

\* ------------------------------------------------------------------------
\* handleCodeChange
\* ------------------------------------------------------------------------
Undefined == "undefined"

\* lines 124-134: validation, then the await of Project.findById
OnCodeChange(s, data) ==
    /\ connected[s]
    /\ Pending < MaxPending
    /\ \A ch \in changes : ~(ch.socket = s /\ ch.data = data)
    /\ \A p \in ProjectIds, f \in FilePaths :
          Len(operationQueue[queueKey(p, f)]) +
            Cardinality({ch \in changes : ch.data.projectId = p
                                           /\ ch.data.filePath = f}) < MaxOps
    /\ IF data.projectId = Undefined \/ data.filePath = Undefined
       THEN /\ out' = SocketEmit(s, "collaboration-error", data.projectId, {})
            /\ changes' = changes
       ELSE /\ out' = {}
            /\ changes' = changes \cup {[socket |-> s, data |-> data]}
    /\ last' = Step("code-change-received", s, data.projectId,
                    s \in Members(activeUsers, heap, data.projectId))
    /\ UNCHANGED <<presence, now, operationQueue, saveTimeouts, timers,
                   saves, store, fileOps, saveLog>>

\* lines 134-163: Project.findById settles; the write-access check, the
\* transform, the broadcast, the queue and the debounced save
CodeChangeProjectFound(ch, found) ==
    LET s == ch.socket
        d == ch.data
    IN  /\ ch \in changes
        /\ changes' = changes \ {ch}
        /\ last' = StepOf(IF found THEN "code-change"
                          ELSE "code-change-failed", s, d.projectId,
                          s \in Members(activeUsers, heap, d.projectId), d)
        /\ IF ~found \/ ~Exists(d.projectId)
                \/ ~canUserAccess(d.projectId, userIdOf(s), "write")
           THEN /\ out' = SocketEmit(s, "collaboration-error", d.projectId,
                                     {})
                /\ UNCHANGED <<operationQueue, saveTimeouts, timers,
                               saveLog>>
           ELSE LET transformedOperation ==
                        transformOperation(operationQueue, d.projectId,
                                           d.operation, d)
                IN  /\ out' = {EventOf(t, "code-change", s, d.projectId, {},
                                       transformedOperation, d.content,
                                       d.position) :
                                    t \in SocketTo(ioRooms, s, d.projectId)}
                    /\ operationQueue' =
                            queueOperation(operationQueue, d.projectId,
                                d.filePath,
                                [operation |-> transformedOperation,
                                 content |-> d.content,
                                 userId |-> userIdOf(s),
                                 timestamp |-> d.timestamp])
                    /\ DebouncedSave(d.projectId, d.filePath, d.content)
        /\ UNCHANGED <<presence, now, saves, store, fileOps>>

\* ------------------------------------------------------------------------
\* handleFileOperation
\* ------------------------------------------------------------------------
\* lines 207-212: up to the await of Project.findById
OnFileOperation(s, data) ==
    /\ connected[s]
    /\ Pending < MaxPending
    /\ \A fo \in fileOps : ~(fo.socket = s /\ fo.data = data)
    /\ \A p \in ProjectIds :
          Len(store[p].activity) +
            Cardinality({fo \in fileOps : fo.data.projectId = p}) < MaxFileOps
    /\ fileOps' = fileOps \cup
            {[socket |-> s, data |-> data, pc |-> "findProject"]}
    /\ out' = {}
    /\ last' = Step("file-operation-received", s, data.projectId,
                    s \in Members(activeUsers, heap, data.projectId))
    /\ UNCHANGED <<presence, now, editing, store>>

\* variant: addFile does not look for an existing file of that path
Throws_NoDuplicateCheck(files, data) ==
    CASE data.filePath = Undefined -> TRUE
      [] data.kind = "create" -> FALSE
      [] data.kind = "delete" -> files[data.filePath] = NoFile
      [] data.kind = "rename" ->
            \/ files[data.filePath] = NoFile
            \/ data.newPath = Undefined
            \/ files[data.newPath] # NoFile
      [] OTHER -> TRUE

\* Project.js addFile (250-276), deleteFile (302-310) and renameFile
\* (350-371) with the switch of lines 221-238: the operation throws
\* (without a path addFile fails on filePath.split, and deleteFile and
\* renameFile find no file)
Throws(files, data) ==
    CASE data.filePath = Undefined -> TRUE
      [] data.kind = "create" -> files[data.filePath] # NoFile
      [] data.kind = "delete" -> files[data.filePath] = NoFile
      [] data.kind = "rename" ->
            \/ files[data.filePath] = NoFile
            \/ data.newPath = Undefined
            \/ files[data.newPath] # NoFile
      [] OTHER -> TRUE

\* the files of the project after the operation
Applied(files, data) ==
    CASE data.kind = "create" ->
            [files EXCEPT ![data.filePath] =
                IF data.content = Undefined THEN "" ELSE data.content]
      [] data.kind = "delete" -> [files EXCEPT ![data.filePath] = NoFile]
      [] data.kind = "rename" ->
            [files EXCEPT ![data.newPath] = files[data.filePath],
                          ![data.filePath] = NoFile]
      [] OTHER -> files

activityType(kind) ==
    CASE kind = "create" -> "file_created"
      [] kind = "delete" -> "file_deleted"
      [] OTHER -> "file_renamed"

\* Project.js addToActivity (366-378)
ActivityLimit == 100
\* variant: the entry is not recorded
addToActivity_NoEntry(activity, type, userId, filePath) == activity

addToActivity(activity, type, userId, filePath) ==
    LET a == <<[type |-> type, user |-> userId, filePath |-> filePath]>>
                \o activity
    IN  IF Len(a) > ActivityLimit THEN SubSeq(a, 1, ActivityLimit) ELSE a

\* lines 212-245: Project.findById settles; the write-access check, the
\* operation on the document, the activity entry, the await of save()
FileOpProjectFound(fo, found) ==
    LET s == fo.socket
        d == fo.data
    IN  /\ fo \in fileOps
        /\ fo.pc = "findProject"
        /\ last' = StepOf(IF found THEN "file-operation"
                          ELSE "file-operation-failed", s, d.projectId,
                          s \in Members(activeUsers, heap, d.projectId), d)
        /\ IF \/ ~found
              \/ ~Exists(d.projectId)
              \/ ~canUserAccess(d.projectId, userIdOf(s), "write")
              \/ Throws(store[d.projectId].files, d)
           THEN /\ out' = SocketEmit(s, "collaboration-error", d.projectId,
                                     {})
                /\ fileOps' = fileOps \ {fo}
           ELSE /\ out' = {}
                /\ fileOps' = (fileOps \ {fo}) \cup {[fo EXCEPT !.pc = "save"]}
        /\ UNCHANGED <<presence, now, editing, store>>

\* lines 245-256: project.save() settles, with the change of the document
\* written; then the broadcast to the whole Socket.IO room
FileOpSaved(fo, ok) ==
    LET s == fo.socket
        d == fo.data
    IN  /\ fo \in fileOps
        /\ fo.pc = "save"
        /\ fileOps' = fileOps \ {fo}
        /\ last' = StepOf(IF ok THEN "file-operation-saved"
                          ELSE "file-operation-failed", s, d.projectId,
                          s \in Members(activeUsers, heap, d.projectId), d)
        /\ IF ok
           THEN /\ store' = [store EXCEPT ![d.projectId] =
                        [files |-> Applied(@.files, d),
                         activity |-> addToActivity(@.activity,
                                        activityType(d.kind), userIdOf(s),
                                        d.filePath)]]
                /\ out' = {Event(t, "file-operation", s, d.projectId, {}) :
                                t \in IoTo(ioRooms, d.projectId)}
           ELSE /\ store' = store
                /\ out' = SocketEmit(s, "collaboration-error", d.projectId,
                                     {})
        /\ UNCHANGED <<presence, now, editing>>

\* ------------------------------------------------------------------------
\* The server as wired: every handler runs when its event arrives, and the
\* awaits of a handler interleave with the handlers of other events
\* ------------------------------------------------------------------------
Next ==
    \/ \E s \in Sockets, p \in ProjectIds : OnJoinProject(s, p)
    \/ \E j \in joins, found \in BOOLEAN : UserJoinProjectFound(j, found)
    \/ \E j \in joins, found \in BOOLEAN : UserJoinUserFound(j, found)
    \/ \E s \in Sockets : OnDisconnect(s)
    \/ \E s \in Sockets, p \in ProjectIds, c \in CursorVals :
            OnCursorMove(s, p, c)

Spec == Init /\ [][Next]_vars

\* The service driven by a caller that awaits every call: a handler is
\* started only when no handleUserJoin is suspended, and handleUserLeave is
\* called on the service directly
NextAwaited ==
    \/ joins = {} /\ \E s \in Sockets, p \in ProjectIds : OnJoinProject(s, p)
    \/ \E j \in joins, found \in BOOLEAN : UserJoinProjectFound(j, found)
    \/ \E j \in joins, found \in BOOLEAN : UserJoinUserFound(j, found)
    \/ joins = {} /\ \E s \in Sockets : HandleUserLeave(s)

SpecAwaited == Init /\ [][NextAwaited]_vars

\* The relay of code changes of project p1: the sockets join, edit and
\* disconnect
Operations ==
    {[type |-> "insert", position |-> 1, length |-> 1, text |-> 0],
     [type |-> "delete", position |-> 2, length |-> 1, text |-> 0]}
CodeChange(p, op, ts) ==
    [projectId |-> p, filePath |-> "a.js", operation |-> op, content |-> "B",
     position |-> 7, timestamp |-> ts]
Insert1 == [type |-> "insert", position |-> 1, length |-> 1, text |-> 0]
\* s1 (alice, the owner) edits; s2 (bob, who may only read) and the id of
\* no project give the rejected changes
CodeChanges(s) ==
    IF s = "s1"
    THEN {CodeChange("p1", op, ts) : op \in Operations, ts \in {1, 2}}
            \cup {CodeChange("p9", Insert1, 1)}
    ELSE {CodeChange("p1", Insert1, 2)}

NextEdit ==
    \/ \E s \in Sockets : OnJoinProject(s, "p1")
    \/ \E j \in joins : UserJoinProjectFound(j, TRUE)
    \/ \E j \in joins : UserJoinUserFound(j, TRUE)
    \/ OnDisconnect("s2")
    \/ \E s \in Sockets : \E data \in CodeChanges(s) : OnCodeChange(s, data)
    \/ \E ch \in changes, found \in BOOLEAN : CodeChangeProjectFound(ch, found)

SpecEdit == Init /\ [][NextEdit]_vars

\* debouncedSave called on the service while the clock runs and the timers
\* fire
NextSave ==
    \/ \E f \in FilePaths, c \in Contents : CallDebouncedSave("p1", f, c)
    \/ Tick
    \/ \E t \in timers : TimerFires(t)
    \/ \E sv \in saves, found \in BOOLEAN : SaveProjectFound(sv, found)
    \/ \E sv \in saves, ok \in BOOLEAN : SaveDone(sv, ok)

SpecSave == Init /\ [][NextSave]_vars

\* file operations on project p1 by the sockets that joined it
FileOp(p, k, f, n) ==
    [projectId |-> p, kind |-> k, filePath |-> f, newPath |-> n,
     content |-> "B"]
\* s1 (alice, the owner) operates on the files; s2 (bob, who may only
\* read) and the id of no project give the rejected operations
FileOperations(s) ==
    IF s = "s1"
    THEN {FileOp("p1", k, f, Undefined) : k \in {"create", "delete"},
                                          f \in FilePaths}
            \cup {FileOp("p1", "rename", f, n) : f \in FilePaths,
                                                 n \in FilePaths}
            \cup {FileOp("p1", "chmod", "a.js", Undefined),
                  FileOp("p9", "create", "b.js", Undefined)}
    ELSE {FileOp("p1", "create", "b.js", Undefined)}

NextFiles ==
    \/ \E s \in Sockets : OnJoinProject(s, "p1")
    \/ \E j \in joins : UserJoinProjectFound(j, TRUE)
    \/ \E j \in joins : UserJoinUserFound(j, TRUE)
    \/ \E s \in Sockets : \E data \in FileOperations(s) :
            OnFileOperation(s, data)
    \/ \E fo \in fileOps, found \in BOOLEAN : FileOpProjectFound(fo, found)
    \/ \E fo \in fileOps, ok \in BOOLEAN : FileOpSaved(fo, ok)

SpecFiles == Init /\ [][NextFiles]_vars

\* code changes and file operations together, by sockets that may write
\* and by sockets that may not
WriteChanges(s) ==
    IF s = "s1" THEN {CodeChange("p1", Insert1, 1), CodeChange("p9", Insert1, 1)}
    ELSE {CodeChange("p1", Insert1, 2)}
WriteFileOps(s) ==
    IF s = "s1"
    THEN {FileOp("p1", "create", "b.js", Undefined),
          FileOp("p9", "create", "b.js", Undefined)}
    ELSE {FileOp("p1", "create", "b.js", Undefined),
          FileOp("p1", "delete", "a.js", Undefined)}

NextWrites ==
    \/ \E s \in Sockets : OnJoinProject(s, "p1")
    \/ \E j \in joins : UserJoinProjectFound(j, TRUE)
    \/ \E j \in joins : UserJoinUserFound(j, TRUE)
    \/ \E s \in Sockets : \E data \in WriteChanges(s) : OnCodeChange(s, data)
    \/ \E ch \in changes, found \in BOOLEAN : CodeChangeProjectFound(ch, found)
    \/ \E s \in Sockets : \E data \in WriteFileOps(s) :
            OnFileOperation(s, data)
    \/ \E fo \in fileOps, found \in BOOLEAN : FileOpProjectFound(fo, found)
    \/ \E fo \in fileOps, ok \in BOOLEAN : FileOpSaved(fo, ok)

SpecWrites == Init /\ [][NextWrites]_vars

\* The service with its sweep called from outside at any moment, while
\* the sockets join one at a time (alice's socket both projects, bob's the
\* one he may read), alice moves her cursor and the minutes pass
SweepJoins == {<<"s1", "p1">>, <<"s2", "p1">>, <<"s1", "p2">>}
NextSweep ==
    \/ joins = {} /\ \E e \in SweepJoins : OnJoinProject(e[1], e[2])
    \/ \E j \in joins : UserJoinProjectFound(j, TRUE)
    \/ \E j \in joins : UserJoinUserFound(j, TRUE)
    \/ \E c \in CursorVals : OnCursorMove("s1", "p1", c)
    \/ TickMinute
    \/ CleanupInactiveUsers

SpecSweep == Init /\ [][NextSweep]_vars

\* The running server and its interval timer: the minutes pass and the
\* timer's callback runs, both without end (weak fairness), while the
\* sockets join and alice moves her cursor
NextInterval ==
    \/ joins = {} /\ \E e \in SweepJoins : OnJoinProject(e[1], e[2])
    \/ \E j \in joins : UserJoinProjectFound(j, TRUE)
    \/ \E j \in joins : UserJoinUserFound(j, TRUE)
    \/ \E c \in CursorVals : OnCursorMove("s1", "p1", c)
    \/ ClockMinute
    \/ CleanupInterval

SpecInterval ==
    Init /\ [][NextInterval]_vars /\ WF_vars(ClockMinute)
         /\ WF_vars(CleanupInterval)

\* queueOperation called over and over for the two files of project p1
NextQueue == \E f \in FilePaths : QueueOperation("p1", f)

SpecQueue == Init /\ [][NextQueue]_vars

\* transformAgainstOperation applied to every pair of client operations
NextTransform == TransformAgainstOperation

SpecTransform == InitTransform /\ [][NextTransform]_vars

\* transformOperation applied to an incoming change and a queue
NextAdjust == TransformOperation

SpecAdjust == InitAdjust /\ [][NextAdjust]_vars

\* events that lack a required field, sent by sockets that joined p1
CursorWithoutFile == "undefined@1"
IncompleteChanges ==
    {CodeChange(Undefined, Insert1, 1),
     [CodeChange("p1", Insert1, 1) EXCEPT !.filePath = Undefined]}
IncompleteFileOps ==
    {FileOp(Undefined, "create", "b.js", Undefined),
     FileOp("p1", Undefined, "b.js", Undefined),
     FileOp("p1", "create", Undefined, Undefined)}

NextFields ==
    \/ \E s \in Sockets : OnJoinProject(s, "p1")
    \/ \E j \in joins : UserJoinProjectFound(j, TRUE)
    \/ \E j \in joins : UserJoinUserFound(j, TRUE)
    \/ \E s \in Sockets, data \in IncompleteChanges : OnCodeChange(s, data)
    \/ \E s \in Sockets : OnCursorMove(s, "p1", CursorWithoutFile)
    \/ \E data \in IncompleteFileOps : OnFileOperation("s1", data)
    \/ \E fo \in fileOps : FileOpProjectFound(fo, TRUE)

SpecFields == Init /\ [][NextFields]_vars

\* One socket sends code-change A and then code-change B for the same
\* file; the lookups of the two handlers settle in either order
ChangeA == CodeChange("p1", Insert1, 1)
ChangeB ==
    CodeChange("p1", [type |-> "delete", position |-> 2, length |-> 1,
                      text |-> 0], 2)
\* the change has been sent: its handler is suspended or has queued it
Sent(d) ==
    \/ \E ch \in changes : ch.data = d
    \/ \E i \in 1 .. Len(operationQueue[queueKey(d.projectId, d.filePath)]) :
          operationQueue[queueKey(d.projectId, d.filePath)][i].timestamp
                = d.timestamp

NextOrder ==
    \/ \E s \in Sockets : OnJoinProject(s, "p1")
    \/ \E j \in joins : UserJoinProjectFound(j, TRUE)
    \/ \E j \in joins : UserJoinUserFound(j, TRUE)
    \/ ~Sent(ChangeA) /\ OnCodeChange("s1", ChangeA)
    \/ Sent(ChangeA) /\ ~Sent(ChangeB) /\ OnCodeChange("s1", ChangeB)
    \/ \E ch \in changes : CodeChangeProjectFound(ch, TRUE)

SpecOrder == Init /\ [][NextOrder]_vars

\* ------------------------------------------------------------------------
\* Claims about the session directory
\* ------------------------------------------------------------------------
Suspended(s) == \E j \in joins : j.socket = s

\* the number of Sessions socket s has in the Room of project p
SessionCount(s, p) ==
    Cardinality({t \in Members(activeUsers, heap, p) : t = s})

\* C1: for a socket that only ever asked to join project p, once its calls
\* have returned, it has exactly one Session in the Room of p if the last
\* call that finished was a Join, and none if it was a Leave, however often
\* either was repeated.
C1_JoinLeaveCount ==
    \A s \in Sockets, p \in ProjectIds :
        (targets[s] = {p} /\ ~Suspended(s)) =>
            /\ lastOp[s] = "join" => SessionCount(s, p) = 1
            /\ lastOp[s] = "leave" => SessionCount(s, p) = 0

\* a Join of an already joined socket has finished, with another Session
\* in the Room
C1_Witness ==
    /\ last.kind = "join-done" /\ last.member
    /\ targets[last.socket] = {last.pid}
    /\ SessionCount(last.socket, last.pid) = 1
    /\ Cardinality(Members(activeUsers, heap, last.pid)) = 2

\* C2: a Room is in the directory only while it holds at least one Session
\* (an entry of activeUsers never maps to an empty Map).
C2_NoEmptyRoom ==
    \A i \in 1 .. Len(activeUsers) :
        \E s \in Sockets : heap[activeUsers[i].room][s] # NoSession

\* C3: every socket has a Session in at most one Room.
C3_OneRoomPerSocket ==
    \A s \in Sockets :
        Cardinality({p \in ProjectIds :
                        s \in Members(activeUsers, heap, p)}) <= 1

\* C4: once the disconnect of a socket has been handled and every Join it
\* started has finished, no Room holds a Session of that socket.
C4_NoSessionAfterDisconnect ==
    \A s \in Sockets :
        (~connected[s] /\ ~Suspended(s)) =>
            \A p \in ProjectIds : s \notin Members(activeUsers, heap, p)

\* C5: a cursor-move of a socket with a Session in a Room of N Sessions is
\* delivered exactly to the N-1 other sockets with a Session in that Room.
C5_CursorMoveToOtherSessions ==
    (last.kind = "cursor-move" /\ last.member) =>
        /\ \A e \in out : e.ev = "cursor-move"
        /\ {e.to : e \in out} =
              Members(activeUsers, heap, last.pid) \ {last.socket}
        /\ Cardinality(out) =
              Cardinality(Members(activeUsers, heap, last.pid)) - 1

\* ------------------------------------------------------------------------
\* Claims about the relay of code changes and file operations
\* ------------------------------------------------------------------------
Last(q) == q[Len(q)]
Front(q) == SubSeq(q, 1, Len(q) - 1)

\* the user of the socket owns the project or collaborates on it with a
\* role that may write (Project.js, lines 345-364)
HasWriteRole(p, s) ==
    /\ p \in ProjectIds
    /\ \/ owner(p) = userIdOf(s)
       \/ getCollaboratorRole(p, userIdOf(s)) \in {"write", "admin"}

\* the last step was handleCodeChange accepting the change of the socket
Accepted == last.kind = "code-change" /\ HasWriteRole(last.pid, last.socket)

\* C6: an accepted code-change is delivered to every other socket that has
\* a Session in the project's Room and is still connected, with the
\* operation as adjusted against the queued operations, the content and
\* the position of the event; nothing is delivered to the sender.
C6_CodeChangeBroadcast ==
    Accepted =>
        LET d == last.data
            queue == operationQueue[queueKey(d.projectId, d.filePath)]
            adjusted == TransformFrom(Front(queue), 1, d.operation,
                                      d.timestamp)
        IN  /\ \A t \in Members(activeUsers, heap, last.pid) \ {last.socket} :
                  connected[t] =>
                    \E e \in out : /\ e.to = t
                                   /\ e.ev = "code-change"
                                   /\ e.operation = adjusted
                                   /\ e.content = d.content
                                   /\ e.position = d.position
            /\ \A e \in out : e.to # last.socket /\ e.ev = "code-change"
                                /\ e.operation = adjusted

\* a change whose position the transform moved was delivered to another
\* Session while the sender was in the Socket.IO room itself
C6_Witness ==
    /\ Accepted
    /\ last.socket \in ioRooms[last.pid]
    /\ \E e \in out : /\ e.to \in Members(activeUsers, heap, last.pid)
                       /\ e.operation # last.data.operation
                       /\ e.position = 7

\* C7: the step of handleCodeChange or handleFileOperation that finds the
\* user without write access, or no project, sends one error event to the
\* requesting socket and nothing else: the queue, the save timers and the
\* store stay as they were and the handler ends.
C7_DeniedWrite ==
    [][(last'.kind \in {"code-change", "file-operation"}
            /\ ~HasWriteRole(last'.pid, last'.socket)) =>
        /\ out' \subseteq {Event(last'.socket, "collaboration-error",
                                 last'.socket, last'.pid, {})}
        /\ connected[last'.socket] => out' # {}
        /\ UNCHANGED <<operationQueue, saveTimeouts, timers, saves, store>>
        /\ fileOps' \subseteq fileOps
        /\ changes' \subseteq changes]_vars

\* a socket that has a Session in the Room, but may only read, had its
\* code-change rejected while another socket was in the room
C7_Witness ==
    /\ last.kind = "code-change" /\ last.member
    /\ ~HasWriteRole(last.pid, last.socket)
    /\ ioRooms[last.pid] \ {last.socket} # {}
    /\ \A e \in out : e.to = last.socket /\ e.ev = "collaboration-error"
    /\ out # {}

\* C8: while every debouncedSave call for a key came less than SaveDelay
\* after the call before it, at most one store update has been issued for
\* the key, it carries the content of the last call, and it has been issued
\* once no timer of the key is set any more.
TimersOf(k) == {t \in timers : saveKey(t.projectId, t.filePath) = k}
SavesOf(k) == {sv \in saves : saveKey(sv.projectId, sv.filePath) = k}

C8_OneWritePerBurst ==
    \A k \in SaveKeys :
        (saveLog[k].calls >= 1 /\ saveLog[k].close) =>
            /\ Len(saveLog[k].issued) <= 1
            /\ \A i \in 1 .. Len(saveLog[k].issued) :
                    saveLog[k].issued[i] = saveLog[k].content
            /\ TimersOf(k) = {} => Len(saveLog[k].issued) = 1

\* three calls in a row, one write, and the store holds the last content
C8_Witness ==
    LET log == saveLog[saveKey("p1", "a.js")]
    IN  /\ log.calls = 3 /\ log.close
        /\ log.issued = <<"B">>
        /\ store["p1"].files["a.js"] = "B"
        /\ timers = {} /\ saves = {}

\* C9: a key never has more than one save task that is scheduled or in
\* flight.
C9_OnePendingSave ==
    \A k \in SaveKeys :
        Cardinality(TimersOf(k)) + Cardinality(SavesOf(k)) <= 1

\* this file operation cannot be carried out on these files
Fails(files, d) ==
    \/ d.kind = "create" /\ files[d.filePath] # NoFile
    \/ d.kind = "delete" /\ files[d.filePath] = NoFile
    \/ d.kind = "rename" /\ files[d.filePath] = NoFile
    \/ d.kind = "rename" /\ d.newPath \in FilePaths
            /\ files[d.newPath] # NoFile
    \/ d.kind \notin {"create", "delete", "rename"}

\* C10: a create of an existing path, a rename onto an existing path, a
\* rename or delete of a missing path or an unknown kind, from a user who
\* may write, ends the handler with one error event to the requesting
\* socket: no other event, no activity entry, the store unchanged.
C10_FailedFileOperation ==
    [][(/\ last'.kind = "file-operation"
        /\ HasWriteRole(last'.pid, last'.socket)
        /\ Fails(store[last'.pid].files, last'.data)) =>
        /\ out' \subseteq {Event(last'.socket, "collaboration-error",
                                 last'.socket, last'.pid, {})}
        /\ connected[last'.socket] => out' # {}
        /\ store' = store
        /\ fileOps' \subseteq fileOps
        /\ fileOps' # fileOps]_vars

\* a create of a path that exists was answered with the error while both
\* sockets were in the Socket.IO room
C10_Witness ==
    /\ last.kind = "file-operation"
    /\ HasWriteRole(last.pid, last.socket)
    /\ last.data.kind = "create"
    /\ store[last.pid].files[last.data.filePath] # NoFile
    /\ ioRooms[last.pid] = Sockets
    /\ out = {Event(last.socket, "collaboration-error", last.socket,
                    last.pid, {})}
    /\ store[last.pid].activity # << >>

\* ------------------------------------------------------------------------
\* Claims about successful file operations
\* ------------------------------------------------------------------------
\* the files of a project after the file operation d, stated per kind
FilesAfter(files, d) ==
    [f \in FilePaths |->
        IF d.kind = "create" /\ f = d.filePath THEN d.content
        ELSE IF d.kind = "delete" /\ f = d.filePath THEN NoFile
        ELSE IF d.kind = "rename" /\ f = d.newPath THEN files[d.filePath]
        ELSE IF d.kind = "rename" /\ f = d.filePath THEN NoFile
        ELSE files[f]]

\* C11: the step of handleFileOperation that broadcasts a file-operation
\* event is the one at which save() has resolved: the store then holds the
\* mutation and exactly one more activity entry, with the kind, the user
\* and the path, and the event goes to every connected socket that has a
\* Session in the Room, the sender among them; no other step delivers a
\* file-operation event.
C11_SavedThenBroadcast ==
    [][/\ (\E e \in out' : e.ev = "file-operation") =>
                last'.kind = "file-operation-saved"
       /\ last'.kind = "file-operation-saved" =>
            LET d == last'.data
                p == last'.pid
                s == last'.socket
            IN  /\ store'[p].files = FilesAfter(store[p].files, d)
                /\ store'[p].activity =
                      <<[type |-> activityType(d.kind),
                         user |-> userIdOf(s),
                         filePath |-> d.filePath]>> \o store[p].activity
                /\ \A t \in Members(activeUsers', heap', p) :
                      connected'[t] =>
                        Cardinality({e \in out' : /\ e.to = t
                                                  /\ e.ev = "file-operation"
                                                  /\ e.from = s}) = 1]_vars

\* a rename by a socket with a Session was saved and both Sessions of the
\* Room, the sender included, got the event
C11_Witness ==
    /\ last.kind = "file-operation-saved"
    /\ last.data.kind = "rename"
    /\ Members(activeUsers, heap, last.pid) = Sockets
    /\ {e.to : e \in out} = Sockets
    /\ store[last.pid].files[last.data.newPath] # NoFile
    /\ store[last.pid].activity[1].type = "file_renamed"

\* ------------------------------------------------------------------------
\* Claims about the inactivity sweep
\* ------------------------------------------------------------------------
\* the Session of socket s in the Room of project p (NoSession if none)
SessionOf(au, h, p, s) ==
    IF HasRoom(au, p) THEN h[RoomOf(au, p)][s] ELSE NoSession

\* the time socket s has been idle in the Room of project p
IdleTime(p, s) == now - SessionOf(activeUsers, heap, p, s).lastActivity

\* C12: a call of cleanupInactiveUsers removes exactly the Sessions idle
\* for more than InactiveThreshold (5 minutes), with the cursor entry of
\* their socket; every other Session and every other cursor entry stays as
\* it was, and a Room is in the directory afterwards exactly if it was
\* there and a Session is left in it.
C12_EvictInactive ==
    [][last'.kind = "cleanup" =>
        /\ \A p \in ProjectIds, s \in Sockets :
              s \in Members(activeUsers, heap, p) =>
                IF IdleTime(p, s) > 5 * SecondsPerMinute
                THEN /\ s \notin Members(activeUsers', heap', p)
                     /\ cursors'[s] = NoCursor
                ELSE SessionOf(activeUsers', heap', p, s) =
                        SessionOf(activeUsers, heap, p, s)
        /\ \A p \in ProjectIds :
              /\ Members(activeUsers', heap', p)
                    \subseteq Members(activeUsers, heap, p)
              /\ HasRoom(activeUsers', p) <=>
                    (HasRoom(activeUsers, p)
                        /\ Members(activeUsers', heap', p) # {})
        /\ \A s \in Sockets :
              (\A p \in ProjectIds :
                    s \in Members(activeUsers, heap, p) =>
                        IdleTime(p, s) <= 5 * SecondsPerMinute)
                => cursors'[s] = cursors[s]]_vars

\* the sweep has removed a Session idle for six minutes, with its cursor,
\* and left one idle for four minutes in the Room
C12_Witness ==
    /\ last.kind = "cleanup"
    /\ now = 6 * SecondsPerMinute
    /\ Members(activeUsers, heap, "p1") = {"s2"}
    /\ IdleTime("p1", "s2") = 4 * SecondsPerMinute
    /\ \E e \in out : e.ev = "user-inactive" /\ e.from = "s1"
    /\ cursors["s1"] = NoCursor
    /\ ~HasRoom(activeUsers, "p2")

\* socket s has a Session in the Room of p that has been idle for longer
\* than the threshold
Overdue(p, s) ==
    /\ s \in Members(activeUsers, heap, p)
    /\ IdleTime(p, s) > 5 * SecondsPerMinute

\* C13: in the running server no Session stays idle beyond the threshold
\* for ever: the periodic sweep removes it (or an activity event of its
\* socket refreshes it).
C13_IdleSessionEvicted ==
    \A s \in Sockets, p \in ProjectIds : []<>(~Overdue(p, s))

\* ------------------------------------------------------------------------
\* Claims about the operation queue and the transform
\* ------------------------------------------------------------------------
\* C14: every queueOperation leaves at most 100 entries under the key:
\* the entries that were there, in their order, less the oldest one if the
\* queue was full, followed by the new entry; no other key changes.
C14_QueueKeepsLast100 ==
    [][last'.kind = "queued" =>
        LET k == queueKey(last'.data.projectId, last'.data.filePath)
            q == operationQueue[k]
            q2 == operationQueue'[k]
            dropped == IF Len(q) = 100 THEN 1 ELSE 0
        IN  /\ Len(q) <= 100
            /\ Len(q2) = Len(q) + 1 - dropped
            /\ q2[Len(q2)] = last'.data.entry
            /\ \A i \in 1 .. Len(q2) - 1 : q2[i] = q[i + dropped]
            /\ \A j \in QueueKeys \ {k} :
                    operationQueue'[j] = operationQueue[j]]_vars

\* the 101st and 102nd entry have pushed the first two out of a queue
C14_Witness ==
    LET q == operationQueue[queueKey("p1", "a.js")]
    IN  /\ last.kind = "queued"
        /\ Len(q) = 100
        /\ q[1].timestamp = 3
        /\ q[100].timestamp = 102
        /\ Len(operationQueue[queueKey("p1", "b.js")]) = 1

\* the number of characters an insertion puts into the file
InsertionLength(op) == IF op.length > op.text THEN op.length ELSE op.text

\* the transform has been applied to an incoming operation of type t1 and
\* a prior operation of type t2
Transformed(t1, t2) ==
    /\ last.kind = "transformed"
    /\ last.data.incoming.type = t1
    /\ last.data.prior.type = t2

\* the result is the incoming operation at position n
MovedTo(n) == last.data.result = [last.data.incoming EXCEPT !.position = n]

\* C15: an incoming insert transformed against a prior insert is moved
\* forward by the length of the prior insertion if the prior position is
\* at or before the incoming position, and is returned as it came
\* otherwise.
C15_InsertVsInsert ==
    Transformed("insert", "insert") =>
        LET op1 == last.data.incoming
            op2 == last.data.prior
        IN  IF op2.position <= op1.position
            THEN MovedTo(op1.position + InsertionLength(op2))
            ELSE MovedTo(op1.position)

\* prior insert at 3 of length 4, incoming insert at 10: moved to 14
C15_Witness ==
    /\ Transformed("insert", "insert")
    /\ last.data.prior.position = 3
    /\ last.data.prior.text = 4 /\ last.data.prior.length = 0
    /\ last.data.incoming.position = 10
    /\ last.data.result.position = 14

\* C16: an incoming delete transformed against a prior insert is moved
\* forward by the length of the prior insertion if the prior position is
\* at or before the incoming position (equal positions included), and is
\* returned as it came otherwise.
C16_DeleteVsInsert ==
    Transformed("delete", "insert") =>
        LET op1 == last.data.incoming
            op2 == last.data.prior
        IN  IF op2.position <= op1.position
            THEN MovedTo(op1.position + InsertionLength(op2))
            ELSE MovedTo(op1.position)

\* C17: an incoming insert transformed against a prior delete is moved
\* backward by the length of the prior deletion, whatever that length is,
\* if the prior position is before the incoming position, and is returned
\* as it came otherwise.
C17_InsertVsDelete ==
    Transformed("insert", "delete") =>
        LET op1 == last.data.incoming
            op2 == last.data.prior
        IN  IF op2.position < op1.position
            THEN MovedTo(op1.position - op2.length)
            ELSE MovedTo(op1.position)

\* the operation op adjusted against the operations of priors, one after
\* the other
RECURSIVE AdjustAgainst(_, _)
AdjustAgainst(priors, op) ==
    IF priors = << >> THEN op
    ELSE AdjustAgainst(Tail(priors),
                       transformAgainstOperation(op, Head(priors).operation))

\* the queued operations of the key of the incoming change that are prior
\* to it: their timestamp is less than its timestamp
PriorsOf(d) ==
    SelectSeq(operationQueue[queueKey(d.projectId, d.filePath)],
              LAMBDA e : e.timestamp < d.timestamp)

\* C18: transformOperation returns the incoming operation adjusted against
\* exactly the queued operations of its own (project, file) key whose
\* timestamp is less than the incoming timestamp, in queue order; entries
\* with an equal or greater timestamp and the queues of other keys have no
\* part in the result.
C18_AdjustAgainstPriorOnly ==
    last.kind = "adjusted" =>
        last.data.result = AdjustAgainst(PriorsOf(last.data),
                                         last.data.operation)

\* a prior entry has moved the operation while an entry of the same
\* timestamp, which would have moved it further, and the entries of another
\* file and another project were left out
C18_Witness ==
    LET d == last.data
        q == operationQueue[queueKey("p1", "a.js")]
    IN  /\ last.kind = "adjusted"
        /\ Len(q) = 2
        /\ q[1].timestamp = d.timestamp
        /\ transformAgainstOperation(d.operation, q[1].operation)
                # d.operation
        /\ q[2].timestamp < d.timestamp
        /\ d.result = transformAgainstOperation(d.operation, q[2].operation)
        /\ d.result # d.operation
        /\ operationQueue[queueKey("p1", "b.js")] # << >>
        /\ operationQueue[queueKey("p2", "a.js")] # << >>

\* ------------------------------------------------------------------------
\* Claims about events that name no Session or lack a field
\* ------------------------------------------------------------------------
\* C19: a Leave of a socket that has no Session, and a cursor-move of a
\* socket that has no Session in the Room of the project it names, leave
\* the session directory and the cursor map as they were and deliver no
\* event to anyone.
C19_NoSessionNoEffect ==
    [][(last'.kind \in {"cursor-move", "leave", "disconnect"}
            /\ ~last'.member) =>
        /\ out' = {}
        /\ UNCHANGED <<activeUsers, heap, cursors>>]_vars

\* C20: the step that handles an event lacking a required field (every
\* code-change, cursor-move and file-operation of SpecFields lacks one)
\* sends one error event to the sender and nothing to anyone else, and
\* leaves the directory, the cursors, the queues, the save timers and the
\* store as they were.
C20_MissingFieldRejected ==
    [][last'.kind \in {"code-change-received", "cursor-move",
                       "file-operation"} =>
        /\ \A e \in out' : e.to = last'.socket
                            /\ e.ev = "collaboration-error"
        /\ out' # {}
        /\ UNCHANGED <<activeUsers, heap, cursors, operationQueue,
                       saveTimeouts, timers, store>>]_vars

\* ------------------------------------------------------------------------
\* Claims about failed saves, ordering and the Join
\* ------------------------------------------------------------------------
\* C21: a step of the save callback, failed or not, delivers no event,
\* sets no timer and starts no other save (a failed write is not tried
\* again); every debouncedSave call sets a timer for its key with its
\* content, due after SaveDelay, also after a failure; and a timer that is
\* set goes away only by firing or by a later call for its key.
C21_FailedSaveSwallowed ==
    [][/\ last'.kind \in {"save-lookup", "save-done"} =>
            /\ out' = {}
            /\ timers' = timers
            /\ {sv.id : sv \in saves'} \subseteq {sv.id : sv \in saves}
            /\ Cardinality(saves') <= Cardinality(saves)
       /\ last'.kind = "debounced-save" =>
            \E k \in SaveKeys :
                /\ saveLog'[k].calls = saveLog[k].calls + 1
                /\ \E t \in timers' :
                        /\ saveKey(t.projectId, t.filePath) = k
                        /\ t.content = saveLog'[k].content
                        /\ t.due = now + SaveDelay
       /\ \A t \in timers \ timers' :
            \/ last'.kind = "timer"
            \/ /\ last'.kind = "debounced-save"
               /\ saveLog'[saveKey(t.projectId, t.filePath)].calls >
                     saveLog[saveKey(t.projectId, t.filePath)].calls]_vars

\* the save of "B" was issued and has ended without reaching the store,
\* which still holds "A"; a later call for the key has set a new timer
C21_Witness ==
    LET k == saveKey("p1", "a.js")
    IN  /\ last.kind = "debounced-save"
        /\ saveLog[k].calls = 2
        /\ saveLog[k].issued = <<"B">>
        /\ saves = {}
        /\ store["p1"].files["a.js"] = "A"
        /\ \E t \in timers : saveKey(t.projectId, t.filePath) = k

\* C22: code-change B, sent after code-change A by the same socket for the
\* same file, is broadcast and queued after A: B is in the queue only
\* behind A, and B is never delivered while A is still to be processed.
C22_SubmissionOrder ==
    LET q == operationQueue[queueKey("p1", "a.js")]
    IN  /\ (\E i \in 1 .. Len(q) : q[i].timestamp = ChangeB.timestamp) =>
                q[1].timestamp = ChangeA.timestamp
        /\ (last.kind = "code-change" /\ last.data = ChangeB) =>
                \A ch \in changes : ch.data # ChangeA

\* C23: the step that completes a Join sends the joining socket the list
\* of exactly the other sockets with a Session in the Room, and sends
\* user-joined to every other connected socket with a Session in the Room
\* and not to the joining socket.
C23_JoinNotifications ==
    last.kind = "join-done" =>
        LET s == last.socket
            others == Members(activeUsers, heap, last.pid) \ {s}
        IN  /\ connected[s] =>
                \E e \in out : /\ e.to = s /\ e.ev = "active-users"
                               /\ e.users = others
            /\ \A e \in out : e.ev = "active-users" =>
                    e.to = s /\ s \notin e.users
            /\ \A t \in others :
                    connected[t] =>
                        \E e \in out : /\ e.to = t /\ e.ev = "user-joined"
                                       /\ e.from = s
            /\ \A e \in out : e.ev = "user-joined" => e.to # s

\* ------------------------------------------------------------------------
\* getProjectStats, and Rooms that end and start again
\* ------------------------------------------------------------------------
\* lines 374-398: the users are held as the set of their socket ids
getProjectStats(au, h, projectId) ==
    IF ~HasRoom(au, projectId)
    THEN [activeUsers |-> 0, users |-> {}]
    ELSE LET users == {t \in Sockets :
                          h[RoomOf(au, projectId)][t] # NoSession}
         IN  [activeUsers |-> Cardinality(users), users |-> users]

\* The service driven by a caller that awaits every call, with clients that
\* edit and move cursors only in a Room they have a Session in: whatever
\* the maps hold for a project was put there while a Room of it existed
NextFresh ==
    \/ /\ joins = {} /\ changes = {}
       /\ \E s \in Sockets : OnJoinProject(s, "p1")
    \/ \E j \in joins : UserJoinProjectFound(j, TRUE)
    \/ \E j \in joins : UserJoinUserFound(j, TRUE)
    \/ /\ joins = {} /\ changes = {}
       /\ \E s \in Sockets : HandleUserLeave(s)
    \/ /\ joins = {}
       /\ \E data \in {ChangeA, ChangeB} :
            /\ "s1" \in Members(activeUsers, heap, data.projectId)
            /\ OnCodeChange("s1", data)
    \/ \E ch \in changes : CodeChangeProjectFound(ch, TRUE)
    \/ /\ joins = {}
       /\ \E s \in Sockets, c \in CursorVals :
            /\ s \in Members(activeUsers, heap, "p1")
            /\ OnCursorMove(s, "p1", c)
    \/ Tick
    \/ \E t \in timers : TimerFires(t)
    \/ \E sv \in saves : SaveProjectFound(sv, TRUE)
    \/ \E sv \in saves : SaveDone(sv, TRUE)

SpecFresh == Init /\ [][NextFresh]_vars

\* nothing is held for project p: no Session, no cursor of a socket,
\* no pending operation and no save timer
Fresh(au, h, cu, q, st, ti, p) ==
    /\ getProjectStats(au, h, p).users = {}
    /\ \A s \in Sockets : cu[s] = NoCursor
    /\ \A f \in FilePaths :
          /\ q[queueKey(p, f)] = <<>>
          /\ st[saveKey(p, f)] = NoTimer
          /\ \A t \in ti : ~(t.projectId = p /\ t.filePath = f)

\* C24: a project without a Room has empty statistics, and the step that
\* creates a Room for a project finds no Session, cursor, pending operation
\* or save timer left from an earlier Room of that project.
C24_FreshRoom ==
    [][\A p \in ProjectIds :
          /\ ~HasRoom(activeUsers', p) =>
                getProjectStats(activeUsers', heap', p) =
                    [activeUsers |-> 0, users |-> {}]
          /\ (~HasRoom(activeUsers, p) /\ HasRoom(activeUsers', p)) =>
                Fresh(activeUsers', heap', cursors', operationQueue',
                      saveTimeouts', timers', p)]_vars

\* ------------------------------------------------------------------------
\* The save of one file running to its end
\* ------------------------------------------------------------------------
\* a second passes; the clock of the model stops at MaxTime
ClockSecond ==
    /\ now' = IF now < MaxTime THEN now + 1 ELSE now
    /\ out' = {}
    /\ last' = Step("tick", "-", "-", FALSE)
    /\ UNCHANGED <<presence, editing, store, fileOps>>

\* debouncedSave called for the existing file a.js of project p1 while the
\* clock leaves room for its delay, a store that never fails, and the
\* server's interval timer; timers that are due fire and lookups and
\* writes settle
NextSettle ==
    \/ /\ now + SaveDelay <= MaxTime
       /\ \E c \in Contents : CallDebouncedSave("p1", "a.js", c)
    \/ ClockSecond
    \/ CleanupInterval
    \/ \E t \in timers : TimerFires(t)
    \/ \E sv \in saves : SaveProjectFound(sv, TRUE)
    \/ \E sv \in saves : SaveDone(sv, TRUE)

SpecSettle ==
    /\ Init /\ [][NextSettle]_vars
    /\ WF_vars(ClockSecond)
    /\ WF_vars(CleanupInterval)
    /\ WF_vars(\E t \in timers : TimerFires(t))
    /\ WF_vars(\E sv \in saves : SaveProjectFound(sv, TRUE))
    /\ WF_vars(\E sv \in saves : SaveDone(sv, TRUE))

Denied(s, p) ==
    /\ p \in targets[s]
    /\ \A j \in joins : ~(j.socket = s /\ j.pid = p)
    /\ ~canUserAccess(p, userIdOf(s), "read")

\* C26: a socket whose join-project request for a project was denied has
\* no Session in the project's Room and is sent no event broadcast to the
\* project.
C26_DeniedJoinReceivesNothing ==
    \A s \in Sockets, p \in ProjectIds :
        Denied(s, p) =>
            /\ s \notin Members(activeUsers, heap, p)
            /\ \A e \in out :
                  (e.pid = p /\ e.ev \in {"user-joined", "user-left",
                                          "cursor-move", "code-change",
                                          "file-operation"}) => e.to # s

\* C27: a code-change of a socket that has no Session in the Room of the
\* project it names is not relayed, not queued and not scheduled for
\* saving: the handler sends at most an error to the sender and leaves the
\* queues and timers as they were.
C27_CodeChangeNeedsSession ==
    [][(last'.kind = "code-change" /\ ~last'.member) =>
          /\ \A e \in out' : e.to = last'.socket
                              /\ e.ev = "collaboration-error"
          /\ operationQueue' = operationQueue
          /\ saveTimeouts' = saveTimeouts
          /\ timers' = timers]_vars

\* ------------------------------------------------------------------------
\* Keys of pairs whose strings hold a separator
\* ------------------------------------------------------------------------
\* the pairs saved and the pairs queued: two whose keys hold the separator
\* twice, and a pair of plain strings
SavePairs == {<<"p", "a_b">>, <<"p_a", "b">>, <<"p1", "a.js">>}
QueuePairs == {<<"p", "a:b">>, <<"p:a", "b">>, <<"p1", "a.js">>}

\* debouncedSave and queueOperation called on the service for these pairs;
\* timers fire and the lookups and writes of their callbacks settle
NextKeys ==
    \/ \E e \in SavePairs : CallDebouncedSave(e[1], e[2], "B")
    \/ \E e \in QueuePairs :
          /\ Len(operationQueue[queueKey(e[1], e[2])]) < MaxOps
          /\ QueueOperation(e[1], e[2])
    \/ Tick
    \/ \E t \in timers : TimerFires(t)
    \/ \E sv \in saves : SaveProjectFound(sv, TRUE)
    \/ \E sv \in saves : SaveDone(sv, TRUE)

SpecKeys == Init /\ [][NextKeys]_vars

\* C28: a debouncedSave call for one (project, file) pair leaves the
\* pending timers of every other pair running, and a queueOperation call
\* for one pair leaves the queue of every other pair as it was.
C28_IndependentPairs ==
    [][/\ last'.kind = "debounced-save" =>
            \A n \in timers' \ timers : \A t \in timers \ timers' :
                t.projectId = n.projectId /\ t.filePath = n.filePath
       /\ last'.kind = "queued" =>
            \A e \in QueuePairs :
                e # <<last'.data.projectId, last'.data.filePath>> =>
                    operationQueue'[queueKey(e[1], e[2])] =
                        operationQueue[queueKey(e[1], e[2])]]_vars

\* C29: the position of the operation transformOperation returns is never
\* negative, the incoming and the queued operations having positions and
\* lengths that are not negative.
C29_PositionNotNegative ==
    last.kind = "adjusted" => last.data.result.position >= 0

\* C30: transformOperation returns an incoming delete as it came when the
\* prior operations of its key are all deletes, and no call changes the
\* operation object the caller supplied or an entry of a queue.
C30_DeleteVsDeleteUnchanged ==
    [][last'.kind = "adjusted" =>
          LET d == last'.data
              priors == PriorsOf(d)
          IN  /\ (/\ d.operation.type = "delete"
                  /\ \A i \in 1 .. Len(priors) :
                        priors[i].operation.type = "delete") =>
                    d.result = d.operation
              /\ d.supplied = d.operation
              /\ operationQueue' = operationQueue]_vars

\* a delete came back as it was, and the supplied object and the queue
\* with it, after two prior deletes in front of it
C30_Witness ==
    LET d == last.data
        priors == PriorsOf(d)
    IN  /\ last.kind = "adjusted"
        /\ d.operation.type = "delete"
        /\ Len(priors) = 2
        /\ \A i \in 1 .. 2 :
              /\ priors[i].operation.type = "delete"
              /\ priors[i].operation.position < d.operation.position
        /\ d.result = d.operation
        /\ d.supplied = d.operation

====
